---- MODULE Spec2Model ----
(***************************************************************************)
(* Hybrid retrieval backend (rag-server): the dual-write coordinator       *)
(* (RAGService.add_documents / upsert_documents / delete_documents), the   *)
(* two store adapters (ChromaDBService, ElasticsearchService), the hybrid  *)
(* query path (RAGService.hybrid_query_documents) and the score fusion     *)
(* engine (RerankService.hybrid_score_fusion).                             *)
(*                                                                         *)
(* Scores are real numbers in the program.  They are modelled exactly as   *)
(* integers in fixed units: a 0-1 axis score s is the integer s * Scale,   *)
(* a weight w is the integer w * WScale, a fusion score f is the integer   *)
(* f * Scale * WScale.                                                     *)
(***************************************************************************)
EXTENDS Integers, Sequences, FiniteSets, TLC

VARIABLES
    chroma,     \* vector store: set of records [id, content]
    es,         \* text index:   set of records [id, content]
    resp,       \* outcome of the most recent coordinator / query call
    budget,     \* calls the behaviour may still make
    fin,        \* inputs of a hybrid_score_fusion call
    fout,       \* its output: [done, results]
    model,      \* RerankService.model: None until the cross-encoder is loaded
    is_loading, \* RerankService._is_loading
    load_lock,  \* RerankService._load_lock: the caller holding it, 0 when free
    pc,         \* where each caller of rerank_results stands
    loads,      \* number of times the model constructor was invoked
    failed,     \* number of those invocations that raised
    passes,     \* the hybrid query in progress: its request and two passes
    conn,       \* lazy initialisation of the Chroma client and the embedding
                \* model: the two objects, their locks, each caller's position
    writes      \* the upsert calls in progress and their store writes

loader == <<model, is_loading, load_lock, pc, loads, failed>>

data == <<chroma, es, resp, budget, fin, fout>>

tasks == <<passes, conn, writes>>

vars == <<chroma, es, resp, budget, fin, fout,
          model, is_loading, load_lock, pc, loads, failed,
          passes, conn, writes>>

----------------------------------------------------------------------------
(* Bounds *)

NumIds == 2         \* document ids are 1..NumIds
NumVersions == 2    \* distinct contents a document may have
MaxCalls == 2       \* consecutive upsert calls per behaviour
MaxEsScore == 2     \* largest raw lexical score of a hit
MaxVec == 2         \* longest vector result list given to fusion
MaxText == 2        \* longest text result list given to fusion
MaxN == 2           \* largest n_results of a query
MaxHits == 3        \* longest text result list given to a text-side fusion
MaxEntries == 2     \* longest entry list in a response of the LLM judge
NumCallers == 3     \* concurrent first callers of rerank_results
MaxAxis == 2        \* largest axis score of a score bundle, in halves
NormSpan == 3       \* largest final / fusion score of a score bundle, in halves

Ids == 1..NumIds
Contents == 1..NumVersions

----------------------------------------------------------------------------
(* Optional values: Python None / a missing dict key is <<>>, v is <<v>>.  *)

None == <<>>
Some(v) == <<v>>
IsSome(o) == o # <<>>
Val(o) == o[1]

RECURSIVE Fact(_)
Fact(n) == IF n <= 1 THEN 1 ELSE n * Fact(n - 1)

\* One unit of a 0-1 score.  A multiple of every possible lexical score
\* range, so that min-max normalisation is exact.
Scale == 2 * Fact(MaxEsScore)
\* One unit of a weight (weights are given in tenths).
WScale == 10

----------------------------------------------------------------------------
(* Store adapters *)

StoreIds(store) == {r.id : r \in store}

Records(docs, S) == {[id |-> i, content |-> docs[i]] : i \in S}

\* ChromaDBService.add_documents -> collection.add: records whose id the
\* collection already holds are left as they are.
ChromaAdd(store, docs) ==
    store \cup Records(docs, DOMAIN docs \ StoreIds(store))

\* ChromaDBService.upsert_documents -> collection.upsert
ChromaUpsertKeepOld(store, docs) ==
    store \cup Records(docs, DOMAIN docs)

ChromaUpsert(store, docs) ==
    {r \in store : r.id \notin DOMAIN docs} \cup Records(docs, DOMAIN docs)

\* ChromaDBService.delete_documents -> collection.delete(ids)
ChromaDeleteNoop(store, ids) == store

ChromaDelete(store, ids) == {r \in store : r.id \notin ids}

\* ElasticsearchService.add_documents: one bulk request of "index" actions
\* keyed by _id = doc.id; indexed is the set of items the bulk indexed.
EsIndex(store, docs, indexed) ==
    {r \in store : r.id \notin indexed} \cup Records(docs, indexed)

\* ElasticsearchService.delete_documents: one bulk request of "delete"
\* actions; removed is the set of items the bulk removed.
EsDelete(store, removed) == {r \in store : r.id \notin removed}

----------------------------------------------------------------------------
(* Dual-write coordinator *)

\* A batch: a non-empty set of documents, all at the same content version.
Batches == {[i \in S |-> v] : S \in (SUBSET Ids) \ {{}}, v \in Contents}

\* What a store may hold: at most one record per id.
StoreStates ==
    {Records(f, DOMAIN f) : f \in UNION {[S -> Contents] : S \in SUBSET Ids}}

NoComp == [store |-> "none", ids |-> {}, ok |-> TRUE]

NoResp == [op |-> "none"]

\* Result of the text-index bulk write: it reports success exactly when it
\* indexed every item of the batch.
EsWriteOk(docs, indexed) == indexed = DOMAIN docs

\* RAGService.add_documents, lines 186-203: the value returned once the two
\* writes have been gathered (a rollback that raises pre-empts it).
AddReturnEither(cOk, eOk) == cOk \/ eOk

AddReturn(cOk, eOk) ==
    IF ~cOk \/ ~eOk THEN FALSE ELSE TRUE

BoolStr(b) == IF b THEN "true" ELSE "false"

\* RAGService.add_documents after the two writes have been gathered.
\*   cOk      the vector-store write returned True (an exception is False)
\*   indexed  the items the text-index bulk indexed
\*   dOk      the compensating delete, when one is issued, succeeds
\*   dRem     the items a failing text-index bulk delete removed anyway
\* ChromaDBService.delete_documents re-raises a failure, and the exception
\* leaves add_documents; ElasticsearchService.delete_documents returns False,
\* which add_documents ignores.
AddOutcome(ch, e, docs, cOk, indexed, dOk, dRem) ==
    LET ids == DOMAIN docs
        eOk == EsWriteOk(docs, indexed)
        ch1 == IF cOk THEN ChromaAdd(ch, docs) ELSE ch
        e1  == EsIndex(e, docs, indexed)
        ret == BoolStr(AddReturn(cOk, eOk))
    IN  IF cOk /\ eOk
        THEN [chroma |-> ch1, es |-> e1, ret |-> ret, comp |-> NoComp]
        ELSE IF cOk /\ ~eOk
        THEN [chroma |-> IF dOk THEN ChromaDelete(ch1, ids) ELSE ch1,
              es |-> e1,
              ret |-> IF dOk THEN ret ELSE "raised",
              comp |-> [store |-> "chroma", ids |-> ids, ok |-> dOk]]
        ELSE IF eOk /\ ~cOk
        THEN [chroma |-> ch1,
              es |-> EsDelete(e1, IF dOk THEN ids ELSE dRem),
              ret |-> ret,
              comp |-> [store |-> "es", ids |-> ids, ok |-> dOk]]
        ELSE [chroma |-> ch1, es |-> e1, ret |-> ret, comp |-> NoComp]

AddResp(docs, cOk, indexed, out) ==
    [op |-> "add", docs |-> docs, ids |-> DOMAIN docs,
     wrote |-> TRUE, chromaOk |-> cOk, esOk |-> EsWriteOk(docs, indexed),
     indexed |-> indexed, comp |-> out.comp, ret |-> out.ret,
     preChroma |-> StoreIds(chroma), preEs |-> StoreIds(es)]

\* encode_batch raises: nothing is written and the exception propagates.
EmbedFailResp(op, docs) ==
    [op |-> op, docs |-> docs, ids |-> DOMAIN docs,
     wrote |-> FALSE, chromaOk |-> FALSE, esOk |-> FALSE,
     indexed |-> {}, comp |-> NoComp, ret |-> "raised",
     preChroma |-> StoreIds(chroma), preEs |-> StoreIds(es)]

AddDocuments ==
    /\ budget > 0
    /\ \E docs \in Batches :
         \E cOk \in BOOLEAN, indexed \in SUBSET (DOMAIN docs) :
           \E dOk \in BOOLEAN, dRem \in SUBSET (DOMAIN docs) :
             \* the compensation inputs only matter when one is issued
             /\ (cOk = EsWriteOk(docs, indexed)) => (dOk /\ dRem = {})
             /\ (cOk \/ dOk) => dRem = {}
             /\ dRem # DOMAIN docs
             /\ LET out == AddOutcome(chroma, es, docs, cOk, indexed, dOk, dRem)
                IN  /\ chroma' = out.chroma
                    /\ es' = out.es
                    /\ resp' = AddResp(docs, cOk, indexed, out)
    /\ budget' = budget - 1
    /\ UNCHANGED <<fin, fout>>
    /\ UNCHANGED <<loader, tasks>>

AddEmbedFail ==
    /\ budget > 0
    /\ \E docs \in Batches : resp' = EmbedFailResp("add", docs)
    /\ budget' = budget - 1
    /\ UNCHANGED <<chroma, es, fin, fout>>
    /\ UNCHANGED <<loader, tasks>>

\* RAGService.upsert_documents, lines 685-691: the value returned once the
\* two writes have been gathered.
UpsertReturnBoth(cOk, eOk) == cOk /\ eOk

UpsertReturn(cOk, eOk) ==
    IF ~cOk \/ ~eOk THEN (cOk \/ eOk) ELSE TRUE

\* RAGService.upsert_documents after the two writes have been gathered:
\* no rollback is attempted.
UpsertOutcome(ch, e, docs, cOk, indexed) ==
    [chroma |-> IF cOk THEN ChromaUpsert(ch, docs) ELSE ch,
     es |-> EsIndex(e, docs, indexed),
     ret |-> BoolStr(UpsertReturn(cOk, EsWriteOk(docs, indexed))),
     comp |-> NoComp]

\* The batch of the previous call when that call was an upsert both of
\* whose writes succeeded; the empty batch otherwise.
PrevUpsert ==
    IF resp.op = "upsert" /\ resp.chromaOk /\ resp.esOk
    THEN resp.docs ELSE <<>>

UpsertDocuments ==
    /\ budget > 0
    /\ \E docs \in Batches :
         \E cOk \in BOOLEAN, indexed \in SUBSET (DOMAIN docs) :
           LET out == UpsertOutcome(chroma, es, docs, cOk, indexed)
           IN  /\ chroma' = out.chroma
               /\ es' = out.es
               /\ resp' = [op |-> "upsert", docs |-> docs, ids |-> DOMAIN docs,
                           wrote |-> TRUE, chromaOk |-> cOk,
                           esOk |-> EsWriteOk(docs, indexed),
                           indexed |-> indexed, comp |-> out.comp,
                           ret |-> out.ret, prevUpsert |-> PrevUpsert,
                           preChroma |-> StoreIds(chroma),
                           preEs |-> StoreIds(es)]
    /\ budget' = budget - 1
    /\ UNCHANGED <<fin, fout>>
    /\ UNCHANGED <<loader, tasks>>

UpsertEmbedFail ==
    /\ budget > 0
    /\ \E docs \in Batches : resp' = EmbedFailResp("upsert", docs)
    /\ budget' = budget - 1
    /\ UNCHANGED <<chroma, es, fin, fout>>
    /\ UNCHANGED <<loader, tasks>>

\* RAGService.delete_documents, lines 744-752: the value returned once the
\* two deletes have been gathered.
DeleteReturnBoth(cOk, eOk) == cOk /\ eOk

DeleteReturn(cOk, eOk) ==
    IF cOk /\ eOk THEN TRUE
    ELSE IF cOk \/ eOk THEN TRUE
    ELSE FALSE

\* RAGService.delete_documents.
\*   cOk   the vector-store delete returned True (an exception is False)
\*   eOk   the text-index bulk delete reported no errors
\*   eRem  the items a failing text-index bulk delete removed anyway
DeleteOutcome(ch, e, ids, cOk, eOk, eRem) ==
    [chroma |-> IF cOk THEN ChromaDelete(ch, ids) ELSE ch,
     es |-> EsDelete(e, IF eOk THEN ids ELSE eRem),
     sentChroma |-> ids,
     sentEs |-> ids,
     ret |-> BoolStr(DeleteReturn(cOk, eOk))]

DeleteDocuments ==
    /\ budget > 0
    /\ \E ids \in (SUBSET Ids) \ {{}} :
         \E cOk \in BOOLEAN, eOk \in BOOLEAN, eRem \in SUBSET ids :
           /\ eOk => eRem = {}
           /\ eRem # ids
           /\ LET out == DeleteOutcome(chroma, es, ids, cOk, eOk, eRem)
              IN  /\ chroma' = out.chroma
                  /\ es' = out.es
                  /\ resp' = [op |-> "delete", ids |-> ids,
                              chromaOk |-> cOk, esOk |-> eOk,
                              sentChroma |-> out.sentChroma,
                              sentEs |-> out.sentEs, ret |-> out.ret,
                              preChroma |-> StoreIds(chroma),
                              preEs |-> StoreIds(es)]
    /\ budget' = budget - 1
    /\ UNCHANGED <<fin, fout>>
    /\ UNCHANGED <<loader, tasks>>

----------------------------------------------------------------------------
(* Model load: RerankService._load_model under concurrent callers of
   rerank_results.  The callers are coroutines of one event loop: a step runs
   from one await to the next. *)

Callers == 1..NumCallers

\* RerankService.__init__
Unloaded ==
    /\ model = None
    /\ is_loading = FALSE
    /\ load_lock = 0
    /\ loads = 0
    /\ failed = 0

\* No rerank_results call is in progress.
NoCallers ==
    /\ Unloaded
    /\ pc = [c \in Callers |-> "idle"]

\* No hybrid query is in progress.
NoQuery == [at |-> "none"]

\* ChromaDBService.__init__ and EmbeddingService.__init__: no client, no
\* model, both locks free; no caller has entered either service.
NotConnected ==
    [client |-> None, client_lock |-> 0, embedder |-> None, model_lock |-> 0,
     cache |-> FALSE, offline |-> FALSE,
     at |-> [c \in Callers |-> "idle"]]

\* No upsert call is in progress.
NoWrites == <<>>

NoTasks ==
    /\ passes = NoQuery
    /\ conn = NotConnected
    /\ writes = NoWrites

\* lines 39-48, under the lock: return, wait for the loader, or load
RecheckAlwaysLoad(m, loading) == "load"

Recheck(m, loading) ==
    IF m # None THEN "return" ELSE IF loading THEN "wait" ELSE "load"

\* line 35: the check before the lock; line 38: the caller queues for it
Enter(c) ==
    /\ pc[c] = "idle"
    /\ pc' = [pc EXCEPT ![c] = IF model # None THEN "returned" ELSE "acquire"]
    /\ UNCHANGED <<model, is_loading, load_lock, loads, failed>>
    /\ UNCHANGED <<data, tasks>>

\* line 38: async with self._load_lock, once the lock is free; lines 39-58:
\* the decision under the lock, up to handing the constructor to the executor
Acquire(c) ==
    /\ pc[c] = "acquire"
    /\ load_lock = 0
    /\ LET todo == Recheck(model, is_loading)
       IN  IF todo = "return"
           THEN /\ pc' = [pc EXCEPT ![c] = "returned"]
                /\ UNCHANGED <<load_lock, is_loading, loads>>
           ELSE IF todo = "wait"
           THEN /\ pc' = [pc EXCEPT ![c] = "wait"]
                /\ load_lock' = c
                /\ UNCHANGED <<is_loading, loads>>
           ELSE /\ pc' = [pc EXCEPT ![c] = "loading"]
                /\ load_lock' = c
                /\ is_loading' = TRUE
                /\ loads' = loads + 1
    /\ UNCHANGED <<model, failed>>
    /\ UNCHANGED <<data, tasks>>

\* lines 56-68: the constructor returns the model or raises; finally, and the
\* end of the with block
\* lines 67-68: finally: self._is_loading = False, whether the constructor
\* returned (ok) or raised
FinallyOnSuccess(ok, loading) == IF ok THEN FALSE ELSE loading

Finally(ok, loading) == FALSE

\* line 303: the status get_model_info reports
LoadStatus(m, loading) ==
    IF m # None THEN "loaded" ELSE IF loading THEN "loading" ELSE "not_loaded"

LoadDone(c) ==
    /\ pc[c] = "loading"
    /\ \E ok \in BOOLEAN :
         /\ model' = IF ok THEN Some("CrossEncoder") ELSE model
         /\ failed' = IF ok THEN failed ELSE failed + 1
         /\ pc' = [pc EXCEPT ![c] = IF ok THEN "returned" ELSE "raised"]
         /\ is_loading' = Finally(ok, is_loading)
    /\ load_lock' = 0
    /\ UNCHANGED loads
    /\ UNCHANGED <<data, tasks>>

\* lines 103-141: back in rerank_results, which scores with the model, or
\* returns the candidates when there is none (lines 44-46: a caller waiting
\* on _is_loading comes back once it is reset)
StartScoring(c) ==
    /\ pc[c] \in {"returned", "wait"}
    /\ pc[c] = "wait" => ~is_loading
    /\ load_lock' = IF pc[c] = "wait" THEN 0 ELSE load_lock
    /\ pc' = [pc EXCEPT ![c] = IF model # None THEN "scoring" ELSE "unranked"]
    /\ UNCHANGED <<model, is_loading, loads, failed>>
    /\ UNCHANGED <<data, tasks>>

\* lines 138-173: model.predict in the executor, then the result
FinishScoring(c) ==
    /\ pc[c] = "scoring"
    /\ pc' = [pc EXCEPT ![c] = "done"]
    /\ UNCHANGED <<model, is_loading, load_lock, loads, failed>>
    /\ UNCHANGED <<data, tasks>>

----------------------------------------------------------------------------
(* Score fusion engine: RerankService.hybrid_score_fusion *)

\* A search candidate (a Python dict); a key the dict lacks is None.
Cand(id, source, distance, es_score) ==
    [id |-> id, source |-> source, distance |-> distance,
     es_score |-> es_score, vector_score |-> None, text_score |-> None,
     fusion_score |-> None, final_score |-> None,
     rerank_score |-> None, rerank_method |-> None]

Max2(a, b) == IF a >= b THEN a ELSE b
Min2(a, b) == IF a <= b THEN a ELSE b
SetMax(S) == CHOOSE x \in S : \A y \in S : y <= x
SetMin(S) == CHOOSE x \in S : \A y \in S : x <= y

\* seq[:n]
FirstN(seq, n) == SubSeq(seq, 1, Min2(n, Len(seq)))

\* lines 215-216: vector_score = max(0.0, min(1.0, 1.0 - distance)), the
\* distance defaulting to 1.0
VectorScore(distance) ==
    LET d == IF IsSome(distance) THEN Val(distance) ELSE Scale
    IN  Max2(0, Min2(Scale, Scale - d))

\* Position of the candidate with this id in a list, 0 when there is none.
IndexOf(seq, id) ==
    IF \E k \in 1..Len(seq) : seq[k].id = id
    THEN CHOOSE k \in 1..Len(seq) : seq[k].id = id
    ELSE 0

\* merged_results[doc_id] = cand on an insertion-ordered dict
Put(seq, cand) ==
    LET k == IndexOf(seq, cand.id)
    IN  IF k = 0 THEN Append(seq, cand) ELSE [seq EXCEPT ![k] = cand]

\* lines 211-222: the vector results enter the merged dict
RECURSIVE MergeVector(_, _, _)
MergeVector(merged, vector_results, k) ==
    IF k > Len(vector_results) THEN merged
    ELSE LET result == vector_results[k]
             entry == [result EXCEPT
                          !.vector_score = Some(VectorScore(result.distance)),
                          !.text_score = Some(0)]
         IN  MergeVector(IF result.id # 0 THEN Put(merged, entry) ELSE merged,
                         vector_results, k + 1)

\* lines 225-228: the raw scores of the text results that have a truthy one
TextScores(text_results) ==
    {Val(text_results[k].es_score) :
        k \in {j \in 1..Len(text_results) :
                  /\ IsSome(text_results[j].es_score)
                  /\ Val(text_results[j].es_score) # 0}}

\* lines 239-245: min-max normalisation of one raw score
NormalizedScoreInverted(raw_score, text_scores) ==
    LET max_text_score == SetMax(text_scores)
        score_range == max_text_score - SetMin(text_scores)
    IN  IF score_range > 0
        THEN ((max_text_score - raw_score) * Scale) \div score_range
        ELSE IF raw_score > 0 THEN Scale ELSE 0

NormalizedScore(raw_score, text_scores) ==
    LET min_text_score == SetMin(text_scores)
        score_range == SetMax(text_scores) - min_text_score
    IN  IF score_range > 0
        THEN ((raw_score - min_text_score) * Scale) \div score_range
        ELSE IF raw_score > 0 THEN Scale ELSE 0

\* lines 247-259: one text result enters the merged dict
MergeOneText(merged, result, normalized_score) ==
    LET k == IndexOf(merged, result.id)
    IN  IF k # 0
        THEN [merged EXCEPT
                 ![k].text_score = Some(normalized_score),
                 \* update() copies the keys the entry lacks or holds falsy
                 ![k].es_score =
                     IF merged[k].es_score = None \/ merged[k].es_score = Some(0)
                     THEN result.es_score ELSE merged[k].es_score]
        ELSE Append(merged, [result EXCEPT
                                !.vector_score = Some(0),
                                !.text_score = Some(normalized_score)])

\* lines 231-259
RECURSIVE MergeText(_, _, _, _)
MergeText(merged, text_results, text_scores, k) ==
    IF k > Len(text_results) THEN merged
    ELSE LET result == text_results[k]
             raw_score == IF IsSome(result.es_score)
                          THEN Val(result.es_score) ELSE 0
         IN  MergeText(IF result.id # 0
                       THEN MergeOneText(merged, result,
                                NormalizedScore(raw_score, text_scores))
                       ELSE merged,
                       text_results, text_scores, k + 1)

\* line 268
FusionScoreSwapped(vector_weight, text_weight, vector_score, text_score) ==
    vector_weight * text_score + text_weight * vector_score

FusionScore(vector_weight, text_weight, vector_score, text_score) ==
    vector_weight * vector_score + text_weight * text_score

\* lines 262-277
WithFusion(merged, vector_weight, text_weight) ==
    [k \in 1..Len(merged) |->
        [merged[k] EXCEPT !.fusion_score =
            Some(FusionScore(vector_weight, text_weight,
                             Val(merged[k].vector_score),
                             Val(merged[k].text_score)))]]

\* list.sort(key=..., reverse=True) and sorted(..., reverse=True): stable,
\* descending.  keys[k] is the sort key of seq[k]; the result lists positions.
RECURSIVE InsertDesc(_, _, _)
InsertDesc(sorted, k, keys) ==
    IF sorted = <<>> THEN <<k>>
    ELSE IF keys[Head(sorted)] >= keys[k]
         THEN <<Head(sorted)>> \o InsertDesc(Tail(sorted), k, keys)
         ELSE <<k>> \o sorted

RECURSIVE SortedPositions(_, _, _)
SortedPositions(sorted, k, keys) ==
    IF k > Len(keys) THEN sorted
    ELSE SortedPositions(InsertDesc(sorted, k, keys), k + 1, keys)

SortDesc(seq, keys) ==
    LET pos == SortedPositions(<<>>, 1, keys)
    IN  [j \in 1..Len(seq) |-> seq[pos[j]]]

\* line 280
SortByFusionSkipped(results) == results

SortByFusion(results) ==
    SortDesc(results,
             [k \in 1..Len(results) |-> Val(results[k].fusion_score)])

\* RerankService.hybrid_score_fusion
hybrid_score_fusion(vector_results, text_results, vector_weight, text_weight) ==
    LET merged1 == MergeVector(<<>>, vector_results, 1)
        text_scores == TextScores(text_results)
        merged2 == IF text_scores # {}
                   THEN MergeText(merged1, text_results, text_scores, 1)
                   ELSE merged1
    IN  SortByFusion(WithFusion(merged2, vector_weight, text_weight))

\* Inputs of a fusion call: each pass lists an id at most once.  (The empty
\* id, 0, never comes out of a store.)
Distances == {Some(0), Some(Scale \div 2), Some((3 * Scale) \div 2)}
EsScores == {None} \cup {Some(x) : x \in 0..MaxEsScore}
VecItems == {Cand(i, "vector", d, None) : i \in Ids, d \in Distances}
TextItems == {Cand(i, "text", None, x) : i \in Ids, x \in EsScores}

DistinctIds(seq) ==
    \A j, k \in DOMAIN seq : j # k => seq[j].id # seq[k].id

ListsOf(Items, maxLen) ==
    {l \in UNION {[1..n -> Items] : n \in 0..maxLen} : DistinctIds(l)}

\* (vector_weight, text_weight) in tenths; 0.6 / 0.4 are the defaults
WeightPairs == {<<6, 4>>, <<0, 10>>, <<10, 5>>}

NoFusionInput == [vector |-> <<>>, text |-> <<>>, w |-> <<6, 4>>]

NoFusion == [done |-> FALSE, results |-> <<>>]

InitFusion ==
    /\ chroma = {}
    /\ es = {}
    /\ resp = NoResp
    /\ budget = 1
    /\ fin \in [vector : ListsOf(VecItems, MaxVec),
                text : ListsOf(TextItems, MaxText),
                w : WeightPairs]
    /\ fout = NoFusion
    /\ NoCallers
    /\ NoTasks

Fuse ==
    /\ budget > 0
    /\ fout' = [done |-> TRUE,
                results |-> hybrid_score_fusion(fin.vector, fin.text,
                                                fin.w[1], fin.w[2])]
    /\ budget' = budget - 1
    /\ UNCHANGED <<chroma, es, resp, fin>>
    /\ UNCHANGED <<loader, tasks>>

NextFusion == Fuse

SpecFusion == InitFusion /\ [][NextFusion]_vars

\* Text-side inputs of a fusion call: up to MaxHits text results, the k-th
\* one carrying id k, next to at most one vector result (for id 1).
TextHitLists ==
    UNION {{[k \in 1..n |-> Cand(k, "text", None, f[k])] :
               f \in [1..n -> EsScores]} : n \in 0..MaxHits}

OneVectorLists ==
    {<<>>} \cup {<<Cand(1, "vector", d, None)>> : d \in Distances}

InitTextFusion ==
    /\ chroma = {}
    /\ es = {}
    /\ resp = NoResp
    /\ budget = 1
    /\ fin \in [vector : OneVectorLists, text : TextHitLists, w : WeightPairs]
    /\ fout = NoFusion
    /\ NoCallers
    /\ NoTasks

SpecTextFusion == InitTextFusion /\ [][NextFusion]_vars

----------------------------------------------------------------------------
(* LLM-judge reranker: LLMRerankService.rerank_documents *)

\* line 233: the floor a returned score must reach
ScoreFloor == 20

\* What the judge may answer.  A list entry is a JSON object whose "id" and
\* "score" keys may be missing, or (obj = FALSE) a JSON value that is not an
\* object.
LlmScores == {None, Some(ScoreFloor - 1), Some(ScoreFloor), Some(4 * ScoreFloor)}
LlmEntries ==
    [obj : {TRUE}, id : {None} \cup {Some(i) : i \in 1..(NumIds + 1)},
     score : LlmScores]
        \cup {[obj |-> FALSE, id |-> None, score |-> None]}
LlmResponses ==
    {[kind |-> k, entries |-> <<>>] : k \in {"call_failed", "not_json", "not_list"}}
        \cup {[kind |-> "list", entries |-> e] :
                e \in UNION {[1..n -> LlmEntries] : n \in 0..MaxEntries}}

\* candidates[:top_k] if top_k else candidates
Fallback(candidates, top_k) ==
    IF IsSome(top_k) /\ Val(top_k) # 0
    THEN FirstN(candidates, Val(top_k))
    ELSE candidates

\* line 227: id_to_candidate = {i+1: candidates[i] ...}
CandidateByDocId(candidates, doc_id) ==
    IF \E k \in DOMAIN candidates : candidates[k].id = doc_id
    THEN candidates[CHOOSE k \in DOMAIN candidates : candidates[k].id = doc_id]
    ELSE candidates[doc_id]

CandidateFor(candidates, doc_id) == candidates[doc_id]

InCandidates(candidates, doc_id) == doc_id \in 1..Len(candidates)

\* lines 229-239: the loop over the entries; a non-object entry makes
\* result.get raise
RECURSIVE LlmBuild(_, _, _, _)
LlmBuild(candidates, entries, k, reranked_results) ==
    IF k > Len(entries) THEN [raised |-> FALSE, results |-> reranked_results]
    ELSE LET result == entries[k]
             score == IF IsSome(result.score) THEN Val(result.score) ELSE 0
         IN  IF ~result.obj THEN [raised |-> TRUE, results |-> <<>>]
             ELSE IF /\ IsSome(result.id)
                     /\ InCandidates(candidates, Val(result.id))
                     /\ score >= ScoreFloor
             THEN LlmBuild(candidates, entries, k + 1,
                      Append(reranked_results,
                             [CandidateFor(candidates, Val(result.id)) EXCEPT
                                 !.rerank_score = Some(score),
                                 !.rerank_method = Some("llm")]))
             ELSE LlmBuild(candidates, entries, k + 1, reranked_results)

\* LLMRerankService.rerank_documents: [raised, results]
rerank_documents(candidates, top_k, response) ==
    IF candidates = <<>> THEN [raised |-> FALSE, results |-> <<>>]
    ELSE IF response.kind # "list"
    THEN [raised |-> FALSE, results |-> Fallback(candidates, top_k)]
    ELSE LET built == LlmBuild(candidates, response.entries, 1, <<>>)
         IN  IF built.raised
             THEN [raised |-> FALSE, results |-> Fallback(candidates, top_k)]
             ELSE [raised |-> FALSE,
                   results |-> IF IsSome(top_k)
                               THEN FirstN(built.results, Val(top_k))
                               ELSE built.results]

\* The candidate lists handed to a reranker, and its top_k.
RerankItems == {Cand(i, "vector", None, None) : i \in Ids}
CandidateLists == ListsOf(RerankItems, NumIds)
TopKs == {None} \cup {Some(k) : k \in 0..MaxN}

LlmRerank ==
    /\ budget > 0
    /\ \E candidates \in CandidateLists, top_k \in TopKs,
          response \in LlmResponses :
         LET out == rerank_documents(candidates, top_k, response)
         IN  resp' = [op |-> "llm_rerank", candidates |-> candidates,
                      top_k |-> top_k, response |-> response,
                      raised |-> out.raised, results |-> out.results]
    /\ budget' = budget - 1
    /\ UNCHANGED <<chroma, es, fin, fout>>
    /\ UNCHANGED <<loader, tasks>>

----------------------------------------------------------------------------
(* Cross-encoder reranker: RerankService.rerank_results *)

\* What a call meets: the model load raises, model.predict raises, or predict
\* returns one raw score per (query, summary) pair.
CeScores == {0 - 1, 0, 2}
CeOutcomes(n) ==
    {[kind |-> k, scores |-> <<>>] : k \in {"load_failed", "predict_failed"}}
        \cup {[kind |-> "scores", scores |-> sc] : sc \in [1..n -> CeScores]}

\* lines 152-156: sorted(scored_candidates, key=rerank_score, reverse=True)
SortByRerankSkipped(scored_candidates) == scored_candidates

SortByRerank(scored_candidates) ==
    SortDesc(scored_candidates,
             [k \in 1..Len(scored_candidates) |->
                 Val(scored_candidates[k].rerank_score)])

\* RerankService.rerank_results: [raised, results]
rerank_results(candidates, top_k, outcome) ==
    IF candidates = <<>> THEN [raised |-> FALSE, results |-> <<>>]
    ELSE IF outcome.kind # "scores"
    THEN [raised |-> FALSE, results |-> candidates]
    ELSE LET scored_candidates ==
                 [i \in 1..Len(candidates) |->
                     [candidates[i] EXCEPT
                         !.rerank_score = Some(outcome.scores[i])]]
             reranked_results == SortByRerank(scored_candidates)
         IN  [raised |-> FALSE,
              results |-> IF IsSome(top_k)
                          THEN FirstN(reranked_results, Val(top_k))
                          ELSE reranked_results]

CrossEncoderRerank ==
    /\ budget > 0
    /\ \E candidates \in CandidateLists, top_k \in TopKs :
       \E outcome \in CeOutcomes(Len(candidates)) :
         LET out == rerank_results(candidates, top_k, outcome)
         IN  resp' = [op |-> "ce_rerank", candidates |-> candidates,
                      top_k |-> top_k, response |-> outcome,
                      raised |-> out.raised, results |-> out.results]
    /\ budget' = budget - 1
    /\ UNCHANGED <<chroma, es, fin, fout>>
    /\ UNCHANGED <<loader, tasks>>

\* One reranker call.
InitRerank ==
    /\ chroma = {}
    /\ es = {}
    /\ resp = NoResp
    /\ budget = 1
    /\ fin = NoFusionInput
    /\ fout = NoFusion
    /\ NoCallers
    /\ NoTasks

NextRerank ==
    \/ LlmRerank
    \/ CrossEncoderRerank

SpecRerank == InitRerank /\ [][NextRerank]_vars

----------------------------------------------------------------------------
(* Similarity normaliser: RAGService._calculate_similarity_score.
   The scores of a bundle are integers in halves (3 is 1.5); a similarity is
   an integer in thousandths of a percent (100000 is 100). *)

Pct == 1000

\* 100 * 1 / (1 + math.exp(-x)) for x = h / 2, rounded down, h in -23..23
SigmoidTable ==
    <<1, 1, 2, 4, 7, 12, 20, 33, 55, 91, 150, 247, 407, 669, 1098, 1798,
      2931, 4742, 7585, 11920, 18242, 26894, 37754, 50000, 62245, 73105,
      81757, 88079, 92414, 95257, 97068, 98201, 98901, 99330, 99592, 99752,
      99849, 99908, 99944, 99966, 99979, 99987, 99992, 99995, 99997, 99998,
      99998>>

\* math.exp(-x) raises OverflowError from x = -710 down
ExpOverflows(h) == h <= 0 - 1420

\* lines 60-66 and 73-78: sigmoid_score * 100 of an adjusted score, where
\* math.exp does not overflow
Sigmoid100(h) ==
    IF h <= 0 - 24 THEN 0
    ELSE IF h >= 74 THEN 100 * Pct
    ELSE IF h >= 24 THEN 100 * Pct - 1
    ELSE SigmoidTable[h + 24]

\* threshold = 5.0, scale = 1.0
Adjusted(score) == (score - 10) * 1

\* 100 * math.exp(-(d * d) / (2 * sigma * sigma)) for sigma = 1.5 and
\* d = h / 2, rounded down, h in 1..14
GaussTable ==
    <<94595, 80073, 60653, 41111, 24935, 13533, 6572, 2856, 1110, 386, 120,
      33, 8, 1>>

\* float('inf')
Inf == 2000000

Abs(x) == IF x < 0 THEN 0 - x ELSE x

\* lines 107-119
DistanceSimilarity(d) ==
    LET distance == Abs(d)
    IN  IF distance = 0 THEN 100 * Pct
        ELSE IF distance = Inf THEN 0
        ELSE IF distance <= 14 THEN GaussTable[distance] ELSE 0

\* max(0, min(100, x))
Clamp100(x) == Max2(0, Min2(100 * Pct, x))

\* score * 100, the score in halves
Times100(score) == score * 50 * Pct

Returns(x) == [raised |-> FALSE, value |-> x]

\* RAGService._calculate_similarity_score.  (rerank_method is "llm" exactly
\* when llm_similarity_score is set: the LLM judge sets both, lines 235-237
\* of llm_rerank_service.py.)
calculate_similarity_score(result, search_mode) ==
    IF IsSome(result.rerank_score)
    THEN IF result.rerank_method = Some("llm")
         THEN Returns(Clamp100(Val(result.rerank_score) * 500))
         ELSE IF ExpOverflows(Adjusted(Val(result.rerank_score)))
         THEN [raised |-> TRUE, value |-> 0]
         ELSE Returns(Clamp100(Sigmoid100(Adjusted(Val(result.rerank_score)))))
    ELSE IF IsSome(result.final_score)
    THEN IF Val(result.final_score) > 2
         THEN Returns(Clamp100(Sigmoid100(Adjusted(Val(result.final_score)))))
         ELSE Returns(Clamp100(Times100(Val(result.final_score))))
    ELSE IF search_mode = "hybrid" /\ IsSome(result.fusion_score)
    THEN Returns(Clamp100(Times100(Val(result.fusion_score))))
    ELSE IF search_mode = "text" /\ IsSome(result.text_score)
    THEN Returns(Clamp100(Times100(Val(result.text_score))))
    ELSE IF search_mode = "vector" /\ IsSome(result.vector_score)
    THEN Returns(Clamp100(Times100(Val(result.vector_score))))
    ELSE IF IsSome(result.fusion_score)
    THEN Returns(Clamp100(Times100(Val(result.fusion_score))))
    ELSE IF IsSome(result.vector_score) /\ Val(result.vector_score) > 0
    THEN Returns(Clamp100(Times100(Val(result.vector_score))))
    ELSE IF IsSome(result.text_score) /\ Val(result.text_score) > 0
    THEN Returns(Clamp100(Times100(Val(result.text_score))))
    ELSE IF IsSome(result.distance)
    THEN Returns(Clamp100(DistanceSimilarity(Val(result.distance))))
    ELSE Returns(0)

\* The score bundles given to the normaliser, in halves.
Opt(S) == {None} \cup {Some(x) : x \in S}
RerankValues == {0 - 2000, 0, 10, 40, 300}
Bundles ==
    [rerank_score : Opt(RerankValues),
     rerank_method : {None, Some("llm")},
     final_score : Opt(((0 - 1)..NormSpan) \cup {20}),
     fusion_score : Opt((0 - 1)..NormSpan),
     text_score : Opt(0..MaxAxis),
     vector_score : Opt(0..MaxAxis),
     distance : Opt({0, 1, 0 - 3, Inf})]

SimilarityCall ==
    /\ budget > 0
    /\ \E result \in Bundles, search_mode \in {"vector", "text", "hybrid"} :
         LET out == calculate_similarity_score(result, search_mode)
         IN  resp' = [op |-> "similarity", result |-> result,
                      search_mode |-> search_mode,
                      raised |-> out.raised, similarity |-> out.value]
    /\ budget' = budget - 1
    /\ UNCHANGED <<chroma, es, fin, fout>>
    /\ UNCHANGED <<loader, tasks>>

InitNormalize ==
    /\ chroma = {}
    /\ es = {}
    /\ resp = NoResp
    /\ budget = 1
    /\ fin = NoFusionInput
    /\ fout = NoFusion
    /\ NoCallers
    /\ NoTasks

NextNormalize == SimilarityCall

SpecNormalize == InitNormalize /\ [][NextNormalize]_vars

----------------------------------------------------------------------------
(* Query path: RAGService.hybrid_query_documents *)

\* The ids of a set in ascending order.
RECURSIVE IdSeq(_)
IdSeq(S) ==
    IF S = {} THEN <<>>
    ELSE LET m == SetMin(S) IN <<m>> \o IdSeq(S \ {m})

\* RAGService.query_documents / ChromaDBService.query_documents: the
\* n_results stored documents nearest to the query, nearest first.
\* dist[i] is the distance of document i to the query.
query_documents(store, dist, n_results) ==
    LET ids == IdSeq(StoreIds(store))
        nearest == SortDesc(ids, [k \in 1..Len(ids) |-> 0 - dist[ids[k]]])
    IN  FirstN([k \in 1..Len(nearest) |->
                   Cand(nearest[k], "vector", Some(dist[nearest[k]]), None)],
               n_results)

\* ElasticsearchService.search_documents: the hits, best first, at most size
\* of them; [] when the search raises.  hits[i] is the raw score of
\* document i, 0 when it does not match.
search_documents(store, hits, size, textUp) ==
    IF ~textUp THEN <<>>
    ELSE LET ids == IdSeq({i \in StoreIds(store) : hits[i] > 0})
             best == SortDesc(ids, [k \in 1..Len(ids) |-> hits[ids[k]]])
         IN  FirstN([k \in 1..Len(best) |->
                        Cand(best[k], "text", None, Some(hits[best[k]]))],
                    size)

\* line 429: final_score = result.get("fusion_score",
\*                                    result.get("distance", 0.0))
\* in units of 1 / (Scale * WScale)
FinalScoreNoRerank(result) ==
    IF IsSome(result.fusion_score) THEN Val(result.fusion_score)
    ELSE IF IsSome(result.distance) THEN Val(result.distance) * WScale
    ELSE 0

\* One unit of a final score, which is a fusion score or, after a rerank,
\* the raw cross-encoder score.
Unit == Scale * WScale

\* lines 310-386: the two passes and the fusion.
\*   req  [search_mode, n_results, vector_weight, text_weight,
\*         enable_rerank, rerank_top_k]
\*   env  [vecUp, textUp, dist, hits, ce]: whether the embedding provider and
\*        the vector store answer, whether the text index answers, how the
\*        stored documents score against the query, and what the
\*        cross-encoder does
VectorPass(ch, req, env) ==
    IF req.search_mode \in {"vector", "hybrid"}
    THEN query_documents(ch, env.dist, req.n_results * 2)
    ELSE <<>>

TextPass(e, req, env) ==
    IF req.search_mode \in {"text", "hybrid"}
    THEN search_documents(e, env.hits, req.n_results * 2, env.textUp)
    ELSE <<>>

FusedResults(ch, e, req, env) ==
    LET vector_results == VectorPass(ch, req, env)
        text_results == TextPass(e, req, env)
    IN  IF req.search_mode = "hybrid"
           /\ vector_results # <<>> /\ text_results # <<>>
        THEN hybrid_score_fusion(vector_results, text_results,
                                 req.vector_weight, req.text_weight)
        ELSE IF req.search_mode = "vector" THEN vector_results
        ELSE IF req.search_mode = "text" THEN text_results
        ELSE <<>>

\* lines 387-429: the rerank, and the final score of every result.  The
\* request type has no rerank_method, so that getattr(request,
\* 'rerank_method', 'cross_encoder') is the cross-encoder.
FinalResults(fused_results, req, ce) ==
    IF req.enable_rerank /\ fused_results # <<>>
    THEN LET top_k == IF IsSome(req.rerank_top_k) /\ Val(req.rerank_top_k) # 0
                      THEN req.rerank_top_k
                      ELSE Some(req.n_results)
             reranked_results == rerank_results(fused_results, top_k, ce).results
         IN  [k \in 1..Len(reranked_results) |->
                 LET result == reranked_results[k]
                 IN  [result EXCEPT !.final_score =
                         IF IsSome(result.rerank_score)
                         THEN Some(Val(result.rerank_score) * Unit)
                         ELSE IF IsSome(result.fusion_score)
                         THEN result.fusion_score
                         ELSE Some(0)]]
    ELSE [k \in 1..Len(fused_results) |->
             [fused_results[k] EXCEPT
                 !.final_score = Some(FinalScoreNoRerank(fused_results[k]))]]
\* A final or fusion score to the resolution of the sigmoid table: in
\* halves, rounded down.
Halves(x) == (2 * x) \div Unit

\* score * 100 for a final or fusion score, and for an axis score
FinalTimes100(x) == (x * 100 * Pct) \div Unit
AxisTimes100(x) == (x * 100 * Pct) \div Scale

\* RAGService._calculate_similarity_score on a result of the query path:
\* the rerank score is a raw cross-encoder score, the final and fusion
\* scores are in units of 1 / Unit, the axis scores and the distance in
\* units of 1 / Scale.  No score of the query path makes math.exp overflow.
SimilarityOf(result, search_mode) ==
    IF IsSome(result.rerank_score)
    THEN IF result.rerank_method = Some("llm")
         THEN Clamp100(Val(result.rerank_score) * Pct)
         ELSE Clamp100(Sigmoid100(Adjusted(2 * Val(result.rerank_score))))
    ELSE IF IsSome(result.final_score)
    THEN IF Val(result.final_score) > Unit
         THEN Clamp100(Sigmoid100(Adjusted(Halves(Val(result.final_score)))))
         ELSE Clamp100(FinalTimes100(Val(result.final_score)))
    ELSE IF search_mode = "hybrid" /\ IsSome(result.fusion_score)
    THEN Clamp100(FinalTimes100(Val(result.fusion_score)))
    ELSE IF search_mode = "text" /\ IsSome(result.text_score)
    THEN Clamp100(AxisTimes100(Val(result.text_score)))
    ELSE IF search_mode = "vector" /\ IsSome(result.vector_score)
    THEN Clamp100(AxisTimes100(Val(result.vector_score)))
    ELSE IF IsSome(result.fusion_score)
    THEN Clamp100(FinalTimes100(Val(result.fusion_score)))
    ELSE IF IsSome(result.vector_score) /\ Val(result.vector_score) > 0
    THEN Clamp100(AxisTimes100(Val(result.vector_score)))
    ELSE IF IsSome(result.text_score) /\ Val(result.text_score) > 0
    THEN Clamp100(AxisTimes100(Val(result.text_score)))
    ELSE IF IsSome(result.distance)
    THEN Clamp100(DistanceSimilarity((2 * Val(result.distance)) \div Scale))
    ELSE 0

\* A pydantic model built from keyword arguments: a declared field takes its
\* argument, or its default None; an argument that names no declared field
\* is ignored (the models set no "extra" policy).
Construct(fields, kwargs) ==
    [f \in fields |-> IF f \in DOMAIN kwargs THEN kwargs[f] ELSE None]

\* schemas/embeddings.py: the declared fields of the two result models that
\* the model keeps (titles, tags and highlights play no part).
DocumentResultFields ==
    {"id", "distance", "vector_score", "text_score", "fusion_score",
     "rerank_score", "final_score"}
RankedDocumentResultFields ==
    {"id", "vector_score", "text_score", "fusion_score", "rerank_score",
     "final_score"}

\* lines 435-458: one result as a RankedDocumentResult
RankedResult(result, search_mode) ==
    Construct(RankedDocumentResultFields,
              [id |-> result.id,
               vector_score |-> result.vector_score,
               text_score |-> result.text_score,
               fusion_score |-> result.fusion_score,
               rerank_score |-> result.rerank_score,
               final_score |-> result.final_score,
               similarity_score |-> Some(SimilarityOf(result, search_mode))])

\* RAGService.hybrid_query_documents.  results are the final result dicts,
\* similarity[k] the similarity computed for results[k], response the
\* objects of the response.
hybrid_query_documents(ch, e, req, env) ==
    LET fused_results == FusedResults(ch, e, req, env)
        final_results ==
            FirstN(FinalResults(fused_results, req, env.ce), req.n_results)
    IN  IF req.search_mode \in {"vector", "hybrid"} /\ ~env.vecUp
        THEN [ret |-> "raised", results |-> <<>>, similarity |-> <<>>,
              response |-> <<>>, vector_results |-> 0, text_results |-> 0]
        ELSE [ret |-> "ok", results |-> final_results,
              similarity |->
                  [k \in 1..Len(final_results) |->
                      SimilarityOf(final_results[k], req.search_mode)],
              response |->
                  [k \in 1..Len(final_results) |->
                      RankedResult(final_results[k], req.search_mode)],
              vector_results |-> Len(VectorPass(ch, req, env)),
              text_results |-> Len(TextPass(e, req, env))]

\* 100 * math.exp(-d) for d = h / 2, in thousandths, rounded down, h in 0..4
ExpTable == <<100000, 60653, 36787, 22313, 13533>>
Exp100(h) == IF h <= 4 THEN ExpTable[h + 1] ELSE 0

\* lines 519-535: one vector result as a DocumentResult.  vector_score,
\* final_score and the similarity are math.exp(-abs(distance)), here in
\* thousandths of a percent.
EnhancedResult(result) ==
    LET vector_score == Exp100(Abs((2 * Val(result.distance)) \div Scale))
        temp_result == [Cand(0, "vector", result.distance, None) EXCEPT
                           !.vector_score = Some(vector_score)]
        \* lines 88-94 on temp_result: vector_score * 100, clamped
        similarity_score == Clamp100(vector_score)
    IN  Construct(DocumentResultFields,
                  [id |-> result.id,
                   distance |-> temp_result.distance,
                   vector_score |-> temp_result.vector_score,
                   final_score |-> Some(vector_score),
                   similarity_score |-> Some(similarity_score)])

\* lines 565-589: the loop that turns the hybrid response into
\* DocumentResult objects; it reads ranked_result.similarity_score, which
\* raises AttributeError on an object without that attribute.
StandardResults(response) ==
    IF \E k \in DOMAIN response : "similarity_score" \notin DOMAIN response[k]
    THEN [raised |-> TRUE, results |-> <<>>]
    ELSE [raised |-> FALSE,
          results |->
              [k \in DOMAIN response |->
                  LET ranked_result == response[k]
                      final == IF IsSome(ranked_result.final_score)
                               THEN Val(ranked_result.final_score) ELSE 0
                  IN  Construct(DocumentResultFields,
                          [id |-> ranked_result.id,
                           distance |-> Some(Unit - final),
                           vector_score |-> ranked_result.vector_score,
                           text_score |-> ranked_result.text_score,
                           fusion_score |-> ranked_result.fusion_score,
                           rerank_score |-> ranked_result.rerank_score,
                           final_score |-> ranked_result.final_score,
                           similarity_score |->
                               ranked_result.similarity_score])]]

\* RAGService.smart_query_documents: [ret, results]
smart_query_documents(ch, e, req, env) ==
    IF req.search_mode = "vector"
    THEN IF ~env.vecUp THEN [ret |-> "raised", results |-> <<>>]
         ELSE LET results == query_documents(ch, env.dist, req.n_results)
              IN  [ret |-> "ok",
                   results |-> [k \in 1..Len(results) |->
                                   EnhancedResult(results[k])]]
    ELSE LET hybrid_response == hybrid_query_documents(ch, e, req, env)
             standard == StandardResults(hybrid_response.response)
         IN  IF hybrid_response.ret = "raised" \/ standard.raised
             THEN [ret |-> "raised", results |-> <<>>]
             ELSE [ret |-> "ok", results |-> standard.results]

SearchModes == {"vector", "text", "hybrid"}

\* rerank_top_k matters only to a request that enables the rerank.
QueryRequests ==
    {[search_mode |-> m, n_results |-> n,
      vector_weight |-> w[1], text_weight |-> w[2],
      enable_rerank |-> r[1], rerank_top_k |-> r[2]] :
        m \in SearchModes, n \in 1..MaxN, w \in WeightPairs,
        r \in {<<FALSE, None>>, <<TRUE, None>>, <<TRUE, Some(1)>>}}

QueryDistances == {0, Scale \div 2}

\* The stores a query runs against: any set of ingested documents in each.
IngestedStores == {Records([i \in S |-> 1], S) : S \in SUBSET Ids}

InitQuery ==
    /\ chroma \in IngestedStores
    /\ es \in IngestedStores
    /\ resp = NoResp
    /\ budget = 1
    /\ fin = NoFusionInput
    /\ fout = NoFusion
    /\ NoCallers
    /\ NoTasks

\* The cross-encoder is not called.
NoRerank == [kind |-> "not_called", scores |-> <<>>]

\* What a query may meet.
QueryEnvs(req) ==
    UNION {
      LET pre == [vecUp |-> vecUp, textUp |-> textUp,
                  dist |-> dist, hits |-> hits, ce |-> NoRerank]
          fused_results == FusedResults(chroma, es, req, pre)
          reranks == /\ req.enable_rerank
                     /\ fused_results # <<>>
                     /\ req.search_mode = "text" \/ vecUp
      IN  {[pre EXCEPT !.ce = ce] :
              ce \in IF reranks THEN CeOutcomes(Len(fused_results))
                     ELSE {NoRerank}} :
        vecUp \in BOOLEAN, textUp \in BOOLEAN,
        dist \in [StoreIds(chroma) -> QueryDistances],
        hits \in [StoreIds(es) -> 0..MaxEsScore]}

HybridQuery ==
    /\ budget > 0
    /\ \E req \in QueryRequests :
         \E env \in QueryEnvs(req) :
           LET out == hybrid_query_documents(chroma, es, req, env)
           IN  resp' = [op |-> "query", req |-> req, env |-> env,
                        ret |-> out.ret, results |-> out.results,
                        similarity |-> out.similarity,
                        response |-> out.response,
                        vector_results |-> out.vector_results,
                        text_results |-> out.text_results]
    /\ budget' = budget - 1
    /\ UNCHANGED <<chroma, es, fin, fout>>
    /\ UNCHANGED <<loader, tasks>>

SmartQuery ==
    /\ budget > 0
    /\ \E req \in QueryRequests :
         \E env \in QueryEnvs(req) :
           LET out == smart_query_documents(chroma, es, req, env)
           IN  resp' = [op |-> "smart_query", req |-> req, env |-> env,
                        ret |-> out.ret, results |-> out.results]
    /\ budget' = budget - 1
    /\ UNCHANGED <<chroma, es, fin, fout>>
    /\ UNCHANGED <<loader, tasks>>

NextQuery ==
    \/ HybridQuery
    \/ SmartQuery

SpecQuery == InitQuery /\ [][NextQuery]_vars

----------------------------------------------------------------------------
(* The passes of one query: RAGService.hybrid_query_documents as a
   coroutine.  A step runs from one await of a network call to the next; a
   pass is in flight while its network call is awaited.  The requests have
   the rerank off (the rerank follows the fusion). *)

PassRequests == {req \in QueryRequests : ~req.enable_rerank}

\* The response of the query whose passes have returned.
PassResponse(req, env) ==
    LET out == hybrid_query_documents(chroma, es, req, env)
    IN  [op |-> "query", req |-> req, env |-> env,
         ret |-> out.ret, results |-> out.results,
         similarity |-> out.similarity, response |-> out.response,
         vector_results |-> out.vector_results,
         text_results |-> out.text_results]

\* lines 309-318: up to the await of query_documents; a text query goes
\* straight to line 350, the await of search_documents.
StartQuery ==
    /\ budget > 0
    /\ passes = NoQuery
    /\ \E req \in PassRequests :
         passes' = [at |-> "running", req |-> req,
                    vector |-> IF req.search_mode = "text"
                               THEN "skipped" ELSE "in_flight",
                    text |-> IF req.search_mode = "text"
                             THEN "in_flight" ELSE "idle",
                    dist |-> <<>>, fusion |-> FALSE]
    /\ budget' = budget - 1
    /\ UNCHANGED <<chroma, es, resp, fin, fout, conn, writes>>
    /\ UNCHANGED loader

\* lines 318-350: query_documents returns or raises.  When it returns, a
\* hybrid query goes on to the await of search_documents; a vector query
\* goes on to the response.
VectorReturns ==
    /\ passes # NoQuery
    /\ passes.vector = "in_flight"
    /\ \E vecUp \in BOOLEAN, dist \in [StoreIds(chroma) -> QueryDistances] :
         LET env == [vecUp |-> vecUp, textUp |-> TRUE, dist |-> dist,
                     hits |-> <<>>, ce |-> NoRerank]
         IN  IF ~vecUp
             THEN /\ passes' = [passes EXCEPT !.at = "raised",
                                              !.vector = "raised"]
                  /\ resp' = PassResponse(passes.req, env)
             ELSE IF passes.req.search_mode = "vector"
             THEN /\ passes' = [passes EXCEPT !.at = "returned",
                                              !.vector = "done",
                                              !.dist = dist]
                  /\ resp' = PassResponse(passes.req, env)
             ELSE /\ passes' = [passes EXCEPT !.vector = "done",
                                              !.text = "in_flight",
                                              !.dist = dist]
                  /\ resp' = resp
    /\ UNCHANGED <<chroma, es, budget, fin, fout, conn, writes>>
    /\ UNCHANGED loader

\* lines 350-470: search_documents returns (an empty list when the search
\* failed); then the fusion, the final scores and the response.
TextReturns ==
    /\ passes # NoQuery
    /\ passes.text = "in_flight"
    /\ \E textUp \in BOOLEAN, hits \in [StoreIds(es) -> 0..MaxEsScore] :
         LET env == [vecUp |-> TRUE, textUp |-> textUp, dist |-> passes.dist,
                     hits |-> hits, ce |-> NoRerank]
         IN  /\ passes' = [passes EXCEPT !.at = "returned",
                                          !.text = "done",
                                          !.fusion = TRUE]
             /\ resp' = PassResponse(passes.req, env)
    /\ UNCHANGED <<chroma, es, budget, fin, fout, conn, writes>>
    /\ UNCHANGED loader

NextPasses ==
    \/ StartQuery
    \/ VectorReturns
    \/ TextReturns

SpecPasses == InitQuery /\ [][NextPasses]_vars

----------------------------------------------------------------------------
(* Lazy initialisation under a lock: ChromaDBService._get_client and
   EmbeddingService._initialize_model, called by concurrent coroutines.
     conn.client, conn.client_lock   ChromaDBService._client, ._lock
     conn.embedder, conn.model_lock  EmbeddingService._model, ._lock
     conn.cache    os.path.exists(cache_folder)
     conn.offline  EmbeddingService.force_offline
     conn.at[c]    where caller c stands
   A lock holds the caller that acquired it, 0 when free. *)

\* Where a caller awaits a request that goes over the network:
\*   connecting   chromadb.AsyncHttpClient(host, port), which connects to
\*                the server
\*   request      client.get_or_create_collection(name)
\*   probing      _check_network_connectivity: requests.head to the hub
\*   downloading  SentenceTransformer(model_name) fetching the model
NetworkCalls == {"connecting", "request", "probing", "downloading"}

At(c, where) == [conn EXCEPT !.at[c] = where]

\* get_or_create_collection, line 55, and _get_client, line 31: the check
\* before the lock
ChromaEnter(c) ==
    /\ conn.at[c] = "idle"
    /\ conn' = At(c, IF conn.client = None THEN "client_acquire" ELSE "request")
    /\ UNCHANGED <<data, loader, passes, writes>>

\* _get_client, lines 32-37: async with self._lock, once the lock is free,
\* and the second check; the client is created under the lock
ClientAcquire(c) ==
    /\ conn.at[c] = "client_acquire"
    /\ conn.client_lock = 0
    /\ conn' = IF conn.client = None
               THEN [At(c, "connecting") EXCEPT !.client_lock = c]
               ELSE At(c, "request")
    /\ UNCHANGED <<data, loader, passes, writes>>

\* lines 34-43: AsyncHttpClient returns the client or raises; the with
\* block ends; line 57: the request for the collection
Connected(c) ==
    /\ conn.at[c] = "connecting"
    /\ \E ok \in BOOLEAN :
         conn' = IF ok
                 THEN [At(c, "request") EXCEPT !.client = Some("client"),
                                               !.client_lock = 0]
                 ELSE [At(c, "raised") EXCEPT !.client_lock = 0]
    /\ UNCHANGED <<data, loader, passes, writes>>

\* lines 57-63: the request for the collection returns or raises
RequestDone(c) ==
    /\ conn.at[c] = "request"
    /\ \E ok \in BOOLEAN : conn' = At(c, IF ok THEN "done" ELSE "raised")
    /\ UNCHANGED <<data, loader, passes, writes>>

\* encode, line 191, and _initialize_model, line 75: the check before the
\* lock
EmbedEnter(c) ==
    /\ conn.at[c] = "idle"
    /\ conn' = At(c, IF conn.embedder = None THEN "model_acquire" ELSE "encoding")
    /\ UNCHANGED <<data, loader, passes, writes>>

\* _initialize_model, lines 76-98 and 171-179: async with self._lock, the
\* second check, and the choice of how to load.  With a cache folder the
\* model is loaded offline; without one the network is probed unless
\* force_offline is set, in which case nothing can be loaded.
ModelAcquire(c) ==
    /\ conn.at[c] = "model_acquire"
    /\ conn.model_lock = 0
    /\ conn' = IF conn.embedder # None THEN At(c, "encoding")
               ELSE IF conn.cache
               THEN [At(c, "loading_offline") EXCEPT !.model_lock = c]
               ELSE IF ~conn.offline
               THEN [At(c, "probing") EXCEPT !.model_lock = c]
               ELSE At(c, "raised")
    /\ UNCHANGED <<data, loader, passes, writes>>

\* lines 94-101 and 152-179: the probe answers; the model is downloaded
\* when the network is available, and cannot be loaded otherwise (no cache
\* folder means no local model)
ProbeDone(c) ==
    /\ conn.at[c] = "probing"
    /\ \E network_available \in BOOLEAN :
         conn' = IF network_available THEN At(c, "downloading")
                 ELSE [At(c, "raised") EXCEPT !.model_lock = 0]
    /\ UNCHANGED <<data, loader, passes, writes>>

\* lines 103-125 and 154-169: the SentenceTransformer constructor returns
\* the model or raises; the with block ends
ModelLoaded(c) ==
    /\ conn.at[c] \in {"loading_offline", "downloading"}
    /\ \E ok \in BOOLEAN :
         conn' = IF ok
                 THEN [At(c, "encoding") EXCEPT !.embedder = Some("model"),
                                                !.model_lock = 0]
                 ELSE [At(c, "raised") EXCEPT !.model_lock = 0]
    /\ UNCHANGED <<data, loader, passes, writes>>

\* encode, lines 198-214: model.encode in the executor
EncodeDone(c) ==
    /\ conn.at[c] = "encoding"
    /\ conn' = At(c, "done")
    /\ UNCHANGED <<data, loader, passes, writes>>

\* Concurrent first callers of the two services; the cache folder may or
\* may not exist and offline mode may or may not be forced.
InitLocks ==
    /\ chroma = {}
    /\ es = {}
    /\ resp = NoResp
    /\ budget = 0
    /\ fin = NoFusionInput
    /\ fout = NoFusion
    /\ NoCallers
    /\ passes = NoQuery
    /\ writes = NoWrites
    /\ \E cache \in BOOLEAN, offline \in BOOLEAN :
         conn = [NotConnected EXCEPT !.cache = cache, !.offline = offline]

NextLocks ==
    \E c \in Callers :
        \/ ChromaEnter(c)
        \/ ClientAcquire(c)
        \/ Connected(c)
        \/ RequestDone(c)
        \/ EmbedEnter(c)
        \/ ModelAcquire(c)
        \/ ProbeDone(c)
        \/ ModelLoaded(c)
        \/ EncodeDone(c)

SpecLocks == InitLocks /\ [][NextLocks]_vars

----------------------------------------------------------------------------
(* Concurrent upserts: RAGService.upsert_documents called by coroutines of
   one event loop.  writes[c] is the c-th call: its batch, where it stands,
   and the state of its two store writes.  A write is in flight from the
   gather that dispatches it until the store has answered; the store applies
   it at the moment it answers. *)

UpsertCalls == 1..MaxCalls

Started == DOMAIN writes

\* lines 640-651: up to the await of encode_batch
UpsertStart ==
    /\ Len(writes) < MaxCalls
    /\ \E docs \in Batches :
         writes' = Append(writes, [docs |-> docs, at |-> "encoding",
                                   chroma |-> "idle", es |-> "idle",
                                   ret |-> "none"])
    /\ UNCHANGED <<data, loader, passes, conn>>

\* lines 651-672: encode_batch returns, and the two writes are handed to
\* asyncio.gather; or it raises, and so does the call
UpsertEncoded(c) ==
    /\ c \in Started
    /\ writes[c].at = "encoding"
    /\ \E ok \in BOOLEAN :
         writes' = IF ok
                   THEN [writes EXCEPT ![c].at = "writing",
                                       ![c].chroma = "in_flight",
                                       ![c].es = "in_flight"]
                   ELSE [writes EXCEPT ![c].at = "returned",
                                       ![c].ret = "raised"]
    /\ UNCHANGED <<data, loader, passes, conn>>

\* ChromaDBService.upsert_documents: collection.upsert answers, or fails
UpsertChromaWrite(c) ==
    /\ c \in Started
    /\ writes[c].chroma = "in_flight"
    /\ \E cOk \in BOOLEAN :
         /\ chroma' = IF cOk THEN ChromaUpsert(chroma, writes[c].docs)
                      ELSE chroma
         /\ writes' = [writes EXCEPT
                          ![c].chroma = IF cOk THEN "done" ELSE "failed"]
    /\ UNCHANGED <<es, resp, budget, fin, fout>>
    /\ UNCHANGED <<loader, passes, conn>>

\* ElasticsearchService.add_documents: the bulk request answers
UpsertEsWrite(c) ==
    /\ c \in Started
    /\ writes[c].es = "in_flight"
    /\ \E indexed \in SUBSET (DOMAIN writes[c].docs) :
         /\ es' = EsIndex(es, writes[c].docs, indexed)
         /\ writes' = [writes EXCEPT
                          ![c].es = IF EsWriteOk(writes[c].docs, indexed)
                                    THEN "done" ELSE "failed"]
    /\ UNCHANGED <<chroma, resp, budget, fin, fout>>
    /\ UNCHANGED <<loader, passes, conn>>

\* lines 672-691: the gather returns once both writes have answered
UpsertGathered(c) ==
    /\ c \in Started
    /\ writes[c].at = "writing"
    /\ writes[c].chroma \in {"done", "failed"}
    /\ writes[c].es \in {"done", "failed"}
    /\ writes' = [writes EXCEPT
                     ![c].at = "returned",
                     ![c].ret = BoolStr(UpsertReturn(writes[c].chroma = "done",
                                                     writes[c].es = "done"))]
    /\ UNCHANGED <<data, loader, passes, conn>>

\* Up to MaxCalls upsert calls on stores that start empty.
InitWrites ==
    /\ chroma = {}
    /\ es = {}
    /\ resp = NoResp
    /\ budget = 0
    /\ fin = NoFusionInput
    /\ fout = NoFusion
    /\ NoCallers
    /\ NoTasks

NextWrites ==
    \/ UpsertStart
    \/ \E c \in UpsertCalls :
           \/ UpsertEncoded(c)
           \/ UpsertChromaWrite(c)
           \/ UpsertEsWrite(c)
           \/ UpsertGathered(c)

SpecWrites == InitWrites /\ [][NextWrites]_vars

----------------------------------------------------------------------------
(* Lookup by id: RAGService.get_document_by_id *)

\* The methods the two adapters define.
ChromaDBServiceMethods ==
    {"_get_client", "get_or_create_collection", "add_documents",
     "query_documents", "upsert_documents", "delete_documents",
     "get_collection_info", "list_collections", "ping", "clear_collection"}
ElasticsearchServiceMethods ==
    {"_get_es_client", "initialize_index", "add_documents",
     "search_documents", "delete_documents", "clear_index", "ping",
     "get_index_info", "close"}

\* adapter.get_document_by_id(document_id): calling a method the adapter
\* does not define raises AttributeError; a defined lookup gives the record
\* held under the id, or None.
AdapterLookup(methods, store, document_id) ==
    IF "get_document_by_id" \notin methods
    THEN [raised |-> TRUE, doc |-> None]
    ELSE [raised |-> FALSE,
          doc |-> IF document_id \in StoreIds(store)
                  THEN Some(CHOOSE r \in store : r.id = document_id)
                  ELSE None]

\* RAGService.get_document_by_id: the vector store first, then the text
\* index; an exception of either lookup is logged and swallowed.
get_document_by_id(ch, e, document_id) ==
    LET chroma_doc == AdapterLookup(ChromaDBServiceMethods, ch, document_id)
        es_doc == AdapterLookup(ElasticsearchServiceMethods, e, document_id)
    IN  IF ~chroma_doc.raised /\ chroma_doc.doc # None THEN chroma_doc.doc
        ELSE IF ~es_doc.raised /\ es_doc.doc # None THEN es_doc.doc
        ELSE None

GetDocumentById ==
    /\ budget > 0
    /\ \E document_id \in Ids :
         resp' = [op |-> "get", id |-> document_id,
                  ret |-> get_document_by_id(chroma, es, document_id)]
    /\ budget' = budget - 1
    /\ UNCHANGED <<chroma, es, fin, fout>>
    /\ UNCHANGED <<loader, tasks>>

\* An ingest into empty stores, then a lookup.
InitGet ==
    /\ chroma = {}
    /\ es = {}
    /\ resp = NoResp
    /\ budget = 2
    /\ fin = NoFusionInput
    /\ fout = NoFusion
    /\ NoCallers
    /\ NoTasks

NextGet ==
    \/ AddDocuments
    \/ GetDocumentById

SpecGet == InitGet /\ [][NextGet]_vars

----------------------------------------------------------------------------
(* Properties of the dual-write coordinator (specifications Spec, and
   SpecUpsert for C5) *)

ExactlyOneWrite == resp.wrote /\ resp.chromaOk # resp.esOk

Succeeded == IF resp.chromaOk THEN "chroma" ELSE "es"

\* C1 (as stated): when exactly one store write of an add_documents call
\* succeeds, a compensating delete of the batch's ids is issued against the
\* store that succeeded and the call returns false; when the vector write
\* succeeded, the batch is absent from the vector store after the call.
C1_Original ==
    (resp.op = "add" /\ ExactlyOneWrite) =>
        /\ resp.comp.store = Succeeded
        /\ resp.comp.ids = resp.ids
        /\ resp.ret = "false"
        /\ resp.chromaOk => resp.ids \cap StoreIds(chroma) = {}

\* C1 (amended): when exactly one store write of an add_documents call
\* succeeds, a compensating delete of the batch's ids is issued against the
\* store that succeeded and the call never reports success: it returns false,
\* except that a compensating vector-store delete that raises makes the call
\* raise; when the vector write succeeded and the compensating delete
\* succeeded, the batch is absent from the vector store after the call.
C1_CompensatingDelete ==
    (resp.op = "add" /\ ExactlyOneWrite) =>
        /\ resp.comp.store = Succeeded
        /\ resp.comp.ids = resp.ids
        /\ resp.ret # "true"
        /\ (resp.ret = "raised") <=> (resp.chromaOk /\ ~resp.comp.ok)
        /\ (resp.chromaOk /\ resp.comp.ok) =>
               resp.ids \cap StoreIds(chroma) = {}

C1_Witness ==
    /\ resp.op = "add"
    /\ resp.wrote /\ resp.chromaOk /\ ~resp.esOk
    /\ resp.comp = [store |-> "chroma", ids |-> resp.ids, ok |-> TRUE]
    /\ resp.ret = "false"
    /\ resp.ids \cap StoreIds(chroma) = {}

\* C2: after add_documents returns on a batch whose ids were in neither
\* store before the call, every id of the batch is held by both stores or by
\* neither, whatever the outcomes of the two writes, provided the
\* compensating delete (if any) succeeded.
C2_BothOrNeither ==
    (/\ resp.op = "add"
     /\ resp.ret \in {"true", "false"}
     /\ resp.ids \cap (resp.preChroma \cup resp.preEs) = {}
     /\ resp.comp.ok) =>
        \A i \in resp.ids : (i \in StoreIds(chroma)) <=> (i \in StoreIds(es))

\* C3: add_documents returns true if and only if both store writes of the
\* call succeeded.
C3_AddTrueIffBoth ==
    resp.op = "add" =>
        ((resp.ret = "true") <=> (resp.wrote /\ resp.chromaOk /\ resp.esOk))

C3_Witness ==
    /\ resp.op = "add"
    /\ resp.chromaOk /\ resp.esOk
    /\ resp.ret = "true"
    /\ resp.ids \subseteq StoreIds(chroma) \cap StoreIds(es)

Rewritten ==
    IF resp.op = "upsert" /\ resp.wrote /\ resp.chromaOk /\ resp.esOk
    THEN {i \in resp.ids \cap DOMAIN resp.prevUpsert :
             resp.prevUpsert[i] # resp.docs[i]}
    ELSE {}

\* C5: after two sequential upsert_documents calls with the same id and
\* different contents, all of whose writes succeeded, each store holds
\* exactly one document under that id and its content is the second call's.
C5_IdempotentUpsert ==
    \A i \in Rewritten :
        LET latest == {[id |-> i, content |-> resp.docs[i]]}
        IN  /\ {r \in chroma : r.id = i} = latest
            /\ {r \in es : r.id = i} = latest

C5_Witness ==
    /\ Rewritten # {}
    /\ \A i \in Rewritten :
           /\ [id |-> i, content |-> resp.docs[i]] \in chroma \cap es
           /\ [id |-> i, content |-> resp.prevUpsert[i]] \notin chroma \cup es

\* C6: delete_documents sends the same id set to both adapters, returns true
\* if and only if at least one adapter confirmed removal, and returns false
\* only when both deletes failed.
C6_DeleteAtLeastOne ==
    resp.op = "delete" =>
        /\ resp.sentChroma = resp.ids
        /\ resp.sentEs = resp.ids
        /\ (resp.ret = "true") <=> (resp.chromaOk \/ resp.esOk)
        /\ (resp.ret = "false") <=> (~resp.chromaOk /\ ~resp.esOk)

C6_Witness ==
    /\ resp.op = "delete"
    /\ resp.chromaOk /\ ~resp.esOk
    /\ resp.ret = "true"
    /\ resp.sentChroma = resp.sentEs

\* C28: an add_documents call that reports failure (returns false or
\* raises) leaves in both stores every id of its batch that both stores held
\* before the call.
C28_FailedAddKeepsData ==
    (resp.op = "add" /\ resp.ret # "true") =>
        \A i \in resp.ids \cap resp.preChroma \cap resp.preEs :
            i \in StoreIds(chroma) /\ i \in StoreIds(es)

----------------------------------------------------------------------------
(* Properties of the fusion engine (specification SpecFusion) *)

IdsOf(seq) == {seq[k].id : k \in DOMAIN seq} \ {0}

C10_SortedByFusion ==
    fout.done =>
        \A j, k \in DOMAIN fout.results :
            j < k => Val(fout.results[j].fusion_score)
                         >= Val(fout.results[k].fusion_score)

\* A fusion that had to reorder: the text-only candidate, merged last, is
\* returned first with a strictly larger fusion score.
C10_Witness ==
    /\ fout.done
    /\ Len(fout.results) = 2
    /\ fout.results[1].source = "text"
    /\ fout.results[2].source = "vector"
    /\ Val(fout.results[1].fusion_score) > Val(fout.results[2].fusion_score)

----------------------------------------------------------------------------
(* Properties of the text side of the fusion (specification SpecTextFusion) *)

\* The raw lexical score of a text result: result.get("es_score", 0.0)
RawOf(result) == IF IsSome(result.es_score) THEN Val(result.es_score) ELSE 0

\* The fusion score of candidate id in a fusion output, None when the
\* output does not hold it.
FusionOf(results, id) ==
    LET k == IndexOf(results, id)
    IN  IF k = 0 THEN None ELSE results[k].fusion_score

\* The output of the fusion call when text result k has raw score x instead.
FusedWithRaw(k, x) ==
    hybrid_score_fusion(fin.vector, [fin.text EXCEPT ![k].es_score = Some(x)],
                        fin.w[1], fin.w[2])

\* C11: with the weights (both non-negative), the vector results and the
\* other text results fixed, giving one text result a larger raw lexical
\* score never lowers the fusion_score of that candidate.
C11_FusionMonotone ==
    fout.done =>
        \A k \in DOMAIN fin.text : \A x \in 0..MaxEsScore :
            LET before == FusionOf(fout.results, fin.text[k].id)
                after == FusionOf(FusedWithRaw(k, x), fin.text[k].id)
            IN  (x > RawOf(fin.text[k]) /\ IsSome(before)) =>
                    /\ IsSome(after)
                    /\ Val(after) >= Val(before)

\* A fusion of three text results where raising the middle one's raw score
\* to the top strictly raises its fusion score.
C11_Witness ==
    /\ fout.done
    /\ Len(fin.text) = 3
    /\ fin.w[2] > 0
    /\ \E k \in DOMAIN fin.text :
         /\ \E j \in DOMAIN fin.text : RawOf(fin.text[j]) < RawOf(fin.text[k])
         /\ \E j \in DOMAIN fin.text : RawOf(fin.text[j]) > RawOf(fin.text[k])
         /\ IsSome(FusionOf(fout.results, fin.text[k].id))
         /\ Val(FusionOf(FusedWithRaw(k, MaxEsScore), fin.text[k].id))
                > Val(FusionOf(fout.results, fin.text[k].id))

\* C12: every text result gets text_score = (raw - min) / (max - min), min
\* and max taken over the raw scores of all the text results of the call
\* (1.0 for a positive raw score when max = min), and that text_score lies
\* in [0, 1], also for a result whose raw score is 0 or missing.
C12_TextScoreNormalized ==
    fout.done =>
        \A k \in DOMAIN fin.text :
            LET j == IndexOf(fout.results, fin.text[k].id)
                raws == {RawOf(fin.text[i]) : i \in DOMAIN fin.text}
                raw == RawOf(fin.text[k])
                lo == SetMin(raws)
                hi == SetMax(raws)
                expected == IF hi > lo
                            THEN ((raw - lo) * Scale) \div (hi - lo)
                            ELSE IF raw > 0 THEN Scale ELSE 0
            IN  j # 0 =>
                    /\ fout.results[j].text_score = Some(expected)
                    /\ Val(fout.results[j].text_score) >= 0
                    /\ Val(fout.results[j].text_score) <= Scale

----------------------------------------------------------------------------
(* Properties of the rerankers (specification SpecRerank) *)

\* The judge answered with a list of objects, each with an id and a score.
WellFormed(response) ==
    /\ response.kind = "list"
    /\ \A k \in DOMAIN response.entries :
         /\ response.entries[k].obj
         /\ IsSome(response.entries[k].id)
         /\ IsSome(response.entries[k].score)

\* The reranker met a failure: the model load or the model / LLM call
\* failed, or the judge's answer is not valid structured output.
RerankFailed ==
    \/ resp.op = "ce_rerank" /\ resp.response.kind # "scores"
    \/ resp.op = "llm_rerank" /\ ~WellFormed(resp.response)

\* C13: whenever a reranker (either strategy) meets a model-load failure, a
\* model or LLM call failure or an answer that is not valid structured
\* output, it raises nothing and returns the input candidates in their
\* original order.
C13_RerankNeverFails ==
    (resp.op \in {"llm_rerank", "ce_rerank"} /\ RerankFailed) =>
        /\ ~resp.raised
        /\ resp.results = resp.candidates

RerankScores(results) == [k \in DOMAIN results |-> Val(results[k].rerank_score)]

NonIncreasing(scores) ==
    \A j, k \in DOMAIN scores : j < k => scores[j] >= scores[k]

\* C14: for every well-formed entry list the judge returns, in whatever
\* order it lists the entries, rerank_documents returns its candidates in
\* non-increasing order of rerank_score, and at most top_k of them.
C14_LlmSortedTopK ==
    (resp.op = "llm_rerank" /\ WellFormed(resp.response)) =>
        /\ NonIncreasing(RerankScores(resp.results))
        /\ IsSome(resp.top_k) => Len(resp.results) <= Val(resp.top_k)

\* The entries rerank_documents keeps: id within 1..N, score at the floor
\* or above.
Kept(candidates, entries) ==
    SelectSeq(entries,
              LAMBDA e : /\ Val(e.id) \in 1..Len(candidates)
                         /\ Val(e.score) >= ScoreFloor)

\* C15: for a well-formed entry list, the candidates rerank_documents
\* returns are, in order, the entries with an id k in 1..N and a score of at
\* least 20 (up to top_k of them), each giving the k-th input candidate with
\* rerank_score set to the entry's score; so every returned candidate has
\* rerank_score >= 20.
C15_LlmPositionalMapping ==
    (resp.op = "llm_rerank" /\ WellFormed(resp.response)
        /\ resp.candidates # <<>>) =>
        LET kept == Kept(resp.candidates, resp.response.entries)
        IN  /\ Len(resp.results) =
                   IF IsSome(resp.top_k)
                   THEN Min2(Val(resp.top_k), Len(kept)) ELSE Len(kept)
            /\ \A j \in DOMAIN resp.results :
                 /\ resp.results[j] =
                        [resp.candidates[Val(kept[j].id)] EXCEPT
                            !.rerank_score = kept[j].score,
                            !.rerank_method = Some("llm")]
                 /\ Val(resp.results[j].rerank_score) >= ScoreFloor

\* A call on two candidates whose document ids differ from their positions:
\* the judge's entry for position 1 is returned as the first input candidate,
\* an entry below the floor and nothing else is dropped.
C15_Witness ==
    /\ resp.op = "llm_rerank"
    /\ WellFormed(resp.response)
    /\ Len(resp.candidates) = 2
    /\ resp.candidates[1].id = 2
    /\ Len(resp.response.entries) = 2
    /\ resp.response.entries[1] =
           [obj |-> TRUE, id |-> Some(1), score |-> Some(ScoreFloor)]
    /\ resp.response.entries[2].score = Some(ScoreFloor - 1)
    /\ Len(resp.results) = 1
    /\ resp.results[1].id = 2
    /\ resp.results[1].rerank_score = Some(ScoreFloor)

\* C16: when the model scores the pairs, rerank_results gives the i-th
\* candidate the i-th score as rerank_score and returns the candidates in
\* non-increasing order of rerank_score, cut to the first top_k: never more
\* than top_k candidates, and none left out that scores higher than one
\* returned.
C16_CrossEncoderRerank ==
    (resp.op = "ce_rerank" /\ resp.response.kind = "scores") =>
        LET n == Len(resp.candidates)
            scored == [i \in 1..n |->
                          [resp.candidates[i] EXCEPT
                              !.rerank_score = Some(resp.response.scores[i])]]
            returned == {resp.results[j] : j \in DOMAIN resp.results}
        IN  /\ returned \subseteq {scored[i] : i \in 1..n}
            /\ DistinctIds(resp.results)
            /\ NonIncreasing(RerankScores(resp.results))
            /\ Len(resp.results) =
                   IF IsSome(resp.top_k) THEN Min2(Val(resp.top_k), n) ELSE n
            /\ \A i \in 1..n : \A j \in DOMAIN resp.results :
                 scored[i] \notin returned =>
                     resp.response.scores[i] <= Val(resp.results[j].rerank_score)

\* A call that had to reorder and to cut: the last candidate scores highest
\* and is the only one returned under top_k = 1.
C16_Witness ==
    /\ resp.op = "ce_rerank"
    /\ resp.response.kind = "scores"
    /\ Len(resp.candidates) >= 2
    /\ resp.top_k = Some(1)
    /\ \A i \in 1..(Len(resp.candidates) - 1) :
         resp.response.scores[i] < resp.response.scores[Len(resp.candidates)]
    /\ Len(resp.results) = 1
    /\ resp.results[1].id = resp.candidates[Len(resp.candidates)].id

\* C30: whatever entries the judge returns, repeated ids included, the
\* list rerank_documents returns holds each input candidate at most once and
\* is never longer than the input list.
C30_LlmEachCandidateOnce ==
    resp.op = "llm_rerank" =>
        /\ DistinctIds(resp.results)
        /\ Len(resp.results) <= Len(resp.candidates)

----------------------------------------------------------------------------
(* Properties of the model load (specification SpecLoad) *)

\* C17: however the concurrent first callers of rerank_results interleave,
\* the model constructor is never invoked again after or during an
\* invocation that does not fail (so a load that succeeds at the first
\* attempt means exactly one invocation), and a caller scores only once the
\* model is loaded.
C17_SingleFlightLoad ==
    /\ loads <= failed + 1
    /\ model # None => loads = failed + 1
    /\ \A c \in Callers :
         pc[c] \in {"scoring", "done"} => model # None /\ ~is_loading

\* The one load has succeeded and its caller is scoring, while another
\* caller, which found the model unloaded, still queues for the lock.
C17_Witness ==
    /\ loads = 1
    /\ failed = 0
    /\ model # None
    /\ \E c, d \in Callers :
         /\ pc[c] = "scoring"
         /\ pc[d] = "acquire"

\* C25 (as stated): the load state only moves forward through
\* unloaded -> loading -> loaded, also when a load attempt raises: it never
\* goes from loading back to unloaded and never leaves loaded.
C25_Original ==
    [][LET from == LoadStatus(model, is_loading)
           to == LoadStatus(model', is_loading')
       IN  /\ from = "not_loaded" => to \in {"not_loaded", "loading"}
           /\ from = "loading" => to \in {"loading", "loaded"}
           /\ from = "loaded" => to = "loaded"]_vars

\* C25 (amended): the load state moves unloaded -> loading -> loaded and
\* never leaves loaded; it goes from loading back to unloaded exactly in the
\* step in which the load attempt raises, and in no other step.
C25_ForwardOrRetry ==
    [][LET from == LoadStatus(model, is_loading)
           to == LoadStatus(model', is_loading')
       IN  /\ from = "not_loaded" => to \in {"not_loaded", "loading"}
           /\ from = "loading" =>
                  IF failed' = failed + 1 THEN to = "not_loaded"
                  ELSE to \in {"loading", "loaded"}
           /\ from = "loaded" => to = "loaded"]_vars

\* A load attempt raised, the state went back to unloaded, and the load of
\* a later caller succeeded.
C25_Witness ==
    /\ failed >= 1
    /\ LoadStatus(model, is_loading) = "loaded"
    /\ \E c, d \in Callers : pc[c] = "raised" /\ pc[d] = "scoring"

----------------------------------------------------------------------------
(* Properties of the similarity normaliser (specification SpecNormalize) *)

\* C18: for every score bundle and every search mode, also a bundle with no
\* score at all or with a rerank score, final score or distance outside its
\* nominal range, _calculate_similarity_score returns a value in [0, 100].
C18_SimilarityInRange ==
    resp.op = "similarity" =>
        /\ ~resp.raised
        /\ resp.similarity >= 0
        /\ resp.similarity <= 100 * Pct

\* The score of the bundle the similarity is computed from.
Method(result, search_mode) ==
    IF IsSome(result.rerank_score)
    THEN IF result.rerank_method = Some("llm") THEN "llm" ELSE "cross_encoder"
    ELSE IF IsSome(result.final_score) THEN "final_score"
    ELSE IF search_mode = "hybrid" /\ IsSome(result.fusion_score)
    THEN "fusion_score"
    ELSE IF search_mode = "text" /\ IsSome(result.text_score)
    THEN "text_score"
    ELSE IF search_mode = "vector" /\ IsSome(result.vector_score)
    THEN "vector_score"
    ELSE IF IsSome(result.fusion_score) THEN "fusion_score"
    ELSE IF IsSome(result.vector_score) /\ Val(result.vector_score) > 0
    THEN "vector_score"
    ELSE IF IsSome(result.text_score) /\ Val(result.text_score) > 0
    THEN "text_score"
    ELSE IF IsSome(result.distance) THEN "distance"
    ELSE "none"

\* The bundle field holding the upstream score of a scoring method.
UpstreamField(method) ==
    IF method \in {"llm", "cross_encoder"} THEN "rerank_score" ELSE method

UpstreamValues == RerankValues \cup ((0 - 1)..NormSpan) \cup {20}

\* C19: under a fixed scoring method (LLM rerank score, cross-encoder rerank
\* score, final / fusion score, mode axis score) and a fixed search mode, of
\* two bundles that differ only in that upstream score the one with the
\* strictly larger score never gets the smaller similarity.
C19_SimilarityMonotone ==
    (resp.op = "similarity" /\ ~resp.raised
        /\ Method(resp.result, resp.search_mode) \notin {"distance", "none"}) =>
        LET method == Method(resp.result, resp.search_mode)
            field == UpstreamField(method)
        IN  \A x \in UpstreamValues :
                LET larger == [resp.result EXCEPT ![field] = Some(x)]
                    out == calculate_similarity_score(larger, resp.search_mode)
                IN  (/\ x > Val(resp.result[field])
                     /\ Method(larger, resp.search_mode) = method
                     /\ ~out.raised) =>
                        out.value >= resp.similarity

\* C20: the similarity comes from the most refined score the bundle holds:
\* from rerank_score when there is one (LLM: the score clamped to [0, 100];
\* cross-encoder: the shifted sigmoid), otherwise from final_score, otherwise
\* from fusion_score, each scaled by 100, otherwise from the axis score of
\* the search mode scaled by 100, otherwise from the distance; the less
\* refined scores of the bundle play no part.
C20_MostRefinedScore ==
    (resp.op = "similarity" /\ ~resp.raised) =>
        LET b == resp.result
            expected ==
                IF IsSome(b.rerank_score)
                THEN IF b.rerank_method = Some("llm")
                     THEN Clamp100(Val(b.rerank_score) * 500)
                     ELSE Clamp100(Sigmoid100(Adjusted(Val(b.rerank_score))))
                ELSE IF IsSome(b.final_score)
                THEN Clamp100(Times100(Val(b.final_score)))
                ELSE IF IsSome(b.fusion_score)
                THEN Clamp100(Times100(Val(b.fusion_score)))
                ELSE IF resp.search_mode = "text" /\ IsSome(b.text_score)
                THEN Clamp100(Times100(Val(b.text_score)))
                ELSE IF resp.search_mode = "vector" /\ IsSome(b.vector_score)
                THEN Clamp100(Times100(Val(b.vector_score)))
                ELSE resp.similarity
        IN  resp.similarity = expected

----------------------------------------------------------------------------
(* Properties of the query path (specification SpecQuery) *)

HybridQueried == resp.op = "query" /\ resp.req.search_mode = "hybrid"

\* C7: a hybrid query issued while the text index is unavailable and the
\* vector store holds matching documents returns a non-empty result set,
\* sorted, whose scores come from the vector axis alone (text_score 0 for
\* every result).
C7_DegradeTextDown ==
    (/\ HybridQueried
     /\ resp.env.vecUp /\ ~resp.env.textUp
     /\ StoreIds(chroma) # {}) =>
        /\ resp.ret = "ok"
        /\ resp.results # <<>>
        /\ \A k \in DOMAIN resp.results :
               resp.results[k].text_score = Some(0)
        /\ \A j, k \in DOMAIN resp.results :
               j < k => Val(resp.results[j].vector_score)
                            >= Val(resp.results[k].vector_score)

\* C8: a hybrid query issued while the vector store is unavailable and the
\* text index returns results does not abort with an error: it returns the
\* text pass's results with the vector axis at 0.
C8_DegradeVectorDown ==
    (/\ HybridQueried
     /\ ~resp.env.vecUp /\ resp.env.textUp
     /\ \E i \in StoreIds(es) : resp.env.hits[i] > 0) =>
        /\ resp.ret = "ok"
        /\ resp.results # <<>>
        /\ \A k \in DOMAIN resp.results :
               /\ resp.env.hits[resp.results[k].id] > 0
               /\ resp.results[k].vector_score = Some(0)

\* The text pass of the last query, as the text index returned it.
TextPassOf(r) ==
    search_documents(es, r.env.hits, r.req.n_results * 2, r.env.textUp)

\* C21: in a query with search_mode vector or text and rerank off, fusion is
\* skipped and the final score of every result is the 0-1 axis score of the
\* mode: the vector score derived from the distance in vector mode, the
\* min-max normalised text score in text mode.
C21_SingleModeFinalScore ==
    (/\ resp.op = "query" /\ resp.ret = "ok"
     /\ ~resp.req.enable_rerank
     /\ resp.req.search_mode \in {"vector", "text"}) =>
        \A k \in DOMAIN resp.results :
            LET result == resp.results[k]
            IN  /\ result.fusion_score = None
                /\ resp.req.search_mode = "vector" =>
                       result.final_score
                           = Some(VectorScore(result.distance) * WScale)
                /\ resp.req.search_mode = "text" =>
                       result.final_score
                           = Some(NormalizedScore(Val(result.es_score),
                                      TextScores(TextPassOf(resp))) * WScale)

\* The query fails before any response is built: the vector pass raises.
VectorPassRaises(r) ==
    r.req.search_mode \in {"vector", "hybrid"} /\ ~r.env.vecUp

HasSimilarity(object) ==
    IF "similarity_score" \in DOMAIN object
    THEN object.similarity_score # None
    ELSE FALSE

\* C22: every result of the response of smart_query_documents, in vector,
\* text or hybrid mode, with or without rerank, carries a similarity score,
\* and the call does not fail while building the response from the results
\* of its passes.
C22_SimilarityPresent ==
    resp.op = "smart_query" =>
        /\ resp.ret = "raised" => VectorPassRaises(resp)
        /\ \A k \in DOMAIN resp.results : HasSimilarity(resp.results[k])

\* C27: the results of hybrid_query_documents come in non-increasing order
\* of the similarity computed for them, in every search mode, with the
\* rerank on or off.
C27_SortedBySimilarity ==
    resp.op = "query" =>
        \A j, k \in DOMAIN resp.similarity :
            j < k => resp.similarity[j] >= resp.similarity[k]

----------------------------------------------------------------------------
(* Properties of the passes of a query (specification SpecPasses) *)

HybridRunning == passes # NoQuery /\ passes.req.search_mode = "hybrid"

\* C24: in hybrid mode both passes are dispatched before either has
\* completed (the text pass is never dispatched by a step in which, or after
\* which, the vector pass has completed), and the fusion starts only after
\* both passes have finished.
C24_PassesConcurrent ==
    /\ [][(/\ HybridRunning
           /\ passes.text = "idle"
           /\ passes'.text = "in_flight") => passes'.vector = "in_flight"]_vars
    /\ [](HybridRunning /\ passes.fusion =>
              passes.vector = "done" /\ passes.text = "done")

----------------------------------------------------------------------------
(* Properties of the lazy initialisation (specification SpecLocks) *)

\* C26: the vector-store adapter's client lock and the embedding service's
\* model-initialisation lock are never held while a network request of
\* their holder is in progress.
C26_NoLockAcrossNetwork ==
    \A c \in Callers :
        conn.at[c] \in NetworkCalls =>
            conn.client_lock # c /\ conn.model_lock # c

----------------------------------------------------------------------------
(* Properties of concurrent upserts (specification SpecWrites) *)

ContentOf(store, i) == (CHOOSE r \in store : r.id = i).content

\* C29: when two upsert_documents calls for the same id with different
\* contents have both returned and all four store writes succeeded, the two
\* stores hold the same content for that id, however the four writes
\* interleaved.
C29_ConcurrentUpsertsAgree ==
    (/\ Len(writes) = 2
     /\ \A c \in Started :
            /\ writes[c].at = "returned"
            /\ writes[c].chroma = "done"
            /\ writes[c].es = "done") =>
        \A i \in DOMAIN writes[1].docs \cap DOMAIN writes[2].docs :
            writes[1].docs[i] # writes[2].docs[i] =>
                ContentOf(chroma, i) = ContentOf(es, i)

----------------------------------------------------------------------------
(* Properties of the lookup by id (specification SpecGet) *)

\* C23: get_document_by_id returns the document of every id the vector
\* store holds, falls back to the text index for an id only that index
\* holds, and returns None only for an id neither store holds.
C23_LookupById ==
    resp.op = "get" =>
        /\ resp.id \in StoreIds(chroma) =>
               resp.ret = Some(CHOOSE r \in chroma : r.id = resp.id)
        /\ (resp.id \notin StoreIds(chroma) /\ resp.id \in StoreIds(es)) =>
               resp.ret = Some(CHOOSE r \in es : r.id = resp.id)
        /\ resp.ret = None =>
               resp.id \notin StoreIds(chroma) \cup StoreIds(es)

----------------------------------------------------------------------------

\* One coordinator call on stores as earlier calls and failures left them.
Init ==
    /\ chroma \in StoreStates
    /\ es \in StoreStates
    /\ resp = NoResp
    /\ budget = 1
    /\ fin = NoFusionInput
    /\ fout = NoFusion
    /\ NoCallers
    /\ NoTasks

Next ==
    \/ AddDocuments
    \/ AddEmbedFail
    \/ UpsertDocuments
    \/ UpsertEmbedFail
    \/ DeleteDocuments

Spec == Init /\ [][Next]_vars

\* Consecutive upsert calls on stores that start empty.
InitUpsert ==
    /\ chroma = {}
    /\ es = {}
    /\ resp = NoResp
    /\ budget = MaxCalls
    /\ fin = NoFusionInput
    /\ fout = NoFusion
    /\ NoCallers
    /\ NoTasks

NextUpsert ==
    \/ UpsertDocuments
    \/ UpsertEmbedFail

SpecUpsert == InitUpsert /\ [][NextUpsert]_vars

\* Concurrent first callers of rerank_results on an unloaded model.
InitLoad ==
    /\ chroma = {}
    /\ es = {}
    /\ resp = NoResp
    /\ budget = 0
    /\ fin = NoFusionInput
    /\ fout = NoFusion
    /\ NoCallers
    /\ NoTasks

NextLoad ==
    \E c \in Callers :
        \/ Enter(c)
        \/ Acquire(c)
        \/ LoadDone(c)
        \/ StartScoring(c)
        \/ FinishScoring(c)

SpecLoad == InitLoad /\ [][NextLoad]_vars

====
